---- MODULE Spec2Model ----
(***************************************************************************)
(* A model of fastrand64: the xoshiro256** generator, its seeding, the     *)
(* byte materializer and the sync.Pool based thread-safe wrapper.          *)
(*                                                                         *)
(* A uint64 is the tuple <<b0, ..., b7>> of its eight bytes, least         *)
(* significant first: xor, or, the shifts, sums and products are computed  *)
(* on these base-256 limbs, exactly and modulo 2^64, without ever leaving  *)
(* the range of the checker's integers.                                    *)
(***************************************************************************)
EXTENDS Integers, Sequences, FiniteSets, TLC

\* ------------------------------------------------------------------------
\* uint64 arithmetic
\* ------------------------------------------------------------------------

\* width of a state word (uint64), in bits
W == 64

\* number of state words in UnsafeXoshiro256ssRNG.s
NWords == 4

Limbs == 0..((W \div 8) - 1)

\* the uint64 with bytes F(0) .. F(7), least significant first
MkWord(F(_)) == <<F(0), F(1), F(2), F(3), F(4), F(5), F(6), F(7)>>

\* F applied to the value of a, and to the values of a and b: the arguments
\* are evaluated once and bound, where an operator's own parameters are
\* evaluated anew at each use while the checker evaluates ENABLED
On1(F(_), a) == CHOOSE r \in {F(x) : x \in {a}} : TRUE

On2(F(_, _), a, b) == CHOOSE r \in {F(x, y) : x \in {a}, y \in {b}} : TRUE

\* byte(x >> (8*j)): the j-th byte of x, counted from the least significant;
\* zero beyond either end
ByteOf(x, j) == IF j \in Limbs THEN x[j + 1] ELSE 0

Zero == <<0, 0, 0, 0, 0, 0, 0, 0>>

\* the uint64 of a natural number n < 2^31
U64(n) ==
    LET F(j) == IF j < 4 THEN (n \div (256^j)) % 256 ELSE 0
    IN  MkWord(F)

\* bit i of the nibble or byte a
BitOf(a, i) == (a \div (2^i)) % 2

\* the tuple <<F(0), ..., F(15)>>
Row16(F(_)) ==
    <<F(0), F(1), F(2), F(3), F(4), F(5), F(6), F(7),
      F(8), F(9), F(10), F(11), F(12), F(13), F(14), F(15)>>

\* XorTable[a + 1][b + 1] = a ^ b for the 4-bit values a and b
XorTable ==
    LET Row(a) ==
            LET Cell(b) == ((BitOf(a, 0) + BitOf(b, 0)) % 2)
                           + ((BitOf(a, 1) + BitOf(b, 1)) % 2) * 2
                           + ((BitOf(a, 2) + BitOf(b, 2)) % 2) * 4
                           + ((BitOf(a, 3) + BitOf(b, 3)) % 2) * 8
            IN  Row16(Cell)
    IN  Row16(Row)

\* OrTable[a + 1][b + 1] = a | b for the 4-bit values a and b
OrTable ==
    LET Row(a) ==
            LET Cell(b) == (IF BitOf(a, 0) + BitOf(b, 0) > 0 THEN 1 ELSE 0)
                           + (IF BitOf(a, 1) + BitOf(b, 1) > 0 THEN 2 ELSE 0)
                           + (IF BitOf(a, 2) + BitOf(b, 2) > 0 THEN 4 ELSE 0)
                           + (IF BitOf(a, 3) + BitOf(b, 3) > 0 THEN 8 ELSE 0)
            IN  Row16(Cell)
    IN  Row16(Row)

\* a ^ b on one byte
XorByte(a, b) ==
    XorTable[(a % 16) + 1][(b % 16) + 1] + 16 * XorTable[(a \div 16) + 1][(b \div 16) + 1]

\* a ^ b
Xor(a, b) ==
    LET G(x, y) == LET F(j) == XorByte(x[j + 1], y[j + 1]) IN MkWord(F)
    IN  On2(G, a, b)

\* a | b on one byte
OrByte(a, b) ==
    OrTable[(a % 16) + 1][(b % 16) + 1] + 16 * OrTable[(a \div 16) + 1][(b \div 16) + 1]

\* a | b
Or(a, b) ==
    LET G(x, y) == LET F(j) == OrByte(x[j + 1], y[j + 1]) IN MkWord(F)
    IN  On2(G, a, b)

\* AndTable[a + 1][b + 1] = a & b for the 4-bit values a and b
AndTable ==
    LET Row(a) ==
            LET Cell(b) == (BitOf(a, 0) * BitOf(b, 0))
                           + (BitOf(a, 1) * BitOf(b, 1)) * 2
                           + (BitOf(a, 2) * BitOf(b, 2)) * 4
                           + (BitOf(a, 3) * BitOf(b, 3)) * 8
            IN  Row16(Cell)
    IN  Row16(Row)

\* a & b on one byte
AndByte(a, b) ==
    AndTable[(a % 16) + 1][(b % 16) + 1] + 16 * AndTable[(a \div 16) + 1][(b \div 16) + 1]

\* a & b
And(a, b) ==
    LET G(x, y) == LET F(j) == AndByte(x[j + 1], y[j + 1]) IN MkWord(F)
    IN  On2(G, a, b)

\* x << k, for 0 <= k < 64
Shl(x, k) ==
    LET G(v) ==
            LET q == k \div 8
                r == k % 8
                F(j) == ((ByteOf(v, j - q) * (2^r)) % 256)
                        + (ByteOf(v, j - q - 1) \div (2^(8 - r)))
            IN  MkWord(F)
    IN  On1(G, x)

\* x >> k (logical: the operand is unsigned), for 0 <= k < 64
Shr(x, k) ==
    LET G(v) ==
            LET q == k \div 8
                r == k % 8
                F(j) == (ByteOf(v, j + q) \div (2^r))
                        + ((ByteOf(v, j + q + 1) * (2^(8 - r))) % 256)
            IN  MkWord(F)
    IN  On1(G, x)

RECURSIVE AddFrom(_, _, _, _)
\* the limbs j .. 7 of a + b, given the sum t of limb j and the carry into it
AddFrom(a, b, j, t) ==
    IF j = (W \div 8) - 1 THEN <<t % 256>>
    ELSE LET G(c) == <<t % 256>> \o AddFrom(a, b, j + 1, c)
         IN  On1(G, a[j + 2] + b[j + 2] + (t \div 256))

\* a + b modulo 2^64
Add(a, b) ==
    LET G(x, y) == LET H(t) == AddFrom(x, y, 0, t) IN On1(H, x[1] + y[1])
    IN  On2(G, a, b)

RECURSIVE MulColumn(_, _, _, _)
\* sum of the limb products a_i * b_(k-i) for i in 0..m
MulColumn(a, b, k, m) ==
    IF m < 0 THEN 0
    ELSE a[m + 1] * b[k - m + 1] + MulColumn(a, b, k, m - 1)

RECURSIVE MulFrom(_, _, _, _)
\* the limbs k .. 7 of a * b, given the sum t of column k and the carry into it
MulFrom(a, b, k, t) ==
    IF k = (W \div 8) - 1 THEN <<t % 256>>
    ELSE LET G(c) == <<t % 256>> \o MulFrom(a, b, k + 1, c)
         IN  On1(G, MulColumn(a, b, k + 1, k + 1) + (t \div 256))

\* a * b modulo 2^64
Mul(a, b) ==
    LET G(x, y) == LET H(t) == MulFrom(x, y, 0, t) IN On1(H, x[1] * y[1])
    IN  On2(G, a, b)

RECURSIVE LessFrom(_, _, _)
\* a < b on the limbs j, j-1, .., 0
LessFrom(a, b, j) ==
    IF j < 0 THEN FALSE
    ELSE IF a[j + 1] # b[j + 1] THEN a[j + 1] < b[j + 1]
    ELSE LessFrom(a, b, j - 1)

\* a < b as unsigned integers
Less(a, b) ==
    LET G(x, y) == LessFrom(x, y, (W \div 8) - 1)
    IN  On2(G, a, b)

\* ------------------------------------------------------------------------
\* the generator
\* ------------------------------------------------------------------------

rol64(x, k) ==
    LET G(v) == Or(Shl(v, k), Shr(v, W - k))
    IN  On1(G, x)

\* 0x9E3779B97F4A7C15
Golden == <<21, 124, 74, 127, 185, 121, 55, 158>>

\* 0xBF58476D1CE4E5B9
MixA == <<185, 229, 228, 28, 109, 71, 88, 191>>

\* 0x94D049BB133111EB
MixB == <<235, 17, 49, 19, 187, 73, 208, 148>>

\* z ^ (z >> k)
XorShr(z, k) ==
    LET G(v) == Xor(v, Shr(v, k))
    IN  On1(G, z)

splitmix64(index) ==
    XorShr(Mul(XorShr(Mul(XorShr(Add(index, Golden), 30), MixA), 27), MixB), 31)

\* the multipliers 5 and 9 of the output function, as uint64
Five == U64(5)

Nine == U64(9)

\* Uint64 whose update xors every state word with itself
Uint64Clearing(s) ==
    [x |-> Mul(rol64(Mul(s[2], Five), 7), Nine),
     s |-> <<Xor(s[1], s[1]), Xor(s[2], s[2]), Xor(s[3], s[3]), Xor(s[4], s[4])>>]

\* Uint64 with s[1] ^= s[2] and s[3] ^= s[1] in the wrong order
Uint64Swapped(s) ==
    LET result == Mul(rol64(Mul(s[2], Five), 7), Nine)
        t      == Shl(s[2], 17)
        s2a    == Xor(s[3], s[1])
        s1a    == Xor(s[2], s2a)
        s3a    == Xor(s[4], s1a)
        s0a    == Xor(s[1], s3a)
        s2b    == Xor(s2a, t)
        s3b    == rol64(s3a, 45)
    IN  [x |-> result, s |-> <<s0a, s1a, s2b, s3b>>]

\* r.Uint64() on the state s = <<s[0], s[1], s[2], s[3]>> (s[i] of the code
\* is s[i+1] here): the value returned (x) and the state left behind (s)
Uint64(s) ==
    LET result == Mul(rol64(Mul(s[2], Five), 7), Nine)
        t      == Shl(s[2], 17)
        s2a    == Xor(s[3], s[1])      \* s[2] ^= s[0]
        s3a    == Xor(s[4], s[2])      \* s[3] ^= s[1]
        s1a    == Xor(s[2], s2a)       \* s[1] ^= s[2]
        s0a    == Xor(s[1], s3a)       \* s[0] ^= s[3]
        s2b    == Xor(s2a, t)          \* s[2] ^= t
        s3b    == rol64(s3a, 45)       \* s[3] = rol64(s[3], 45)
    IN  [x |-> result, s |-> <<s0a, s1a, s2b, s3b>>]

\* r := &UnsafeXoshiro256ssRNG{}: the zero value of the struct
NewStruct == <<Zero, Zero, Zero, Zero>>

\* SeedIter with the inner loop turned into a single assignment
\* (if r.s[i] == 0 { r.s[i] = splitmix64(..) }): the word is not tested again
SeedIterOnce(g) ==
    IF g.pc = "assign"
      THEN [g EXCEPT !.s[g.i + 1] = splitmix64(Add(g.seed, U64(g.i))),
                     !.i = g.i + 1,
                     !.pc = "seed"]
      ELSE IF g.i >= NWords
             THEN [g EXCEPT !.pc = "ready"]
             ELSE IF g.s[g.i + 1] = Zero
                    THEN [g EXCEPT !.pc = "assign"]
                    ELSE [g EXCEPT !.i = g.i + 1]

\* One step of Seed on a generator g = [s, seed, i, pc, ...]:
\*   for i := 0; i < len(r.s); i++ { for r.s[i] == 0 { r.s[i] = splitmix64(..) } }
\* at pc = "seed" the loop tests are evaluated (Seed returns when the outer
\* one fails), at pc = "assign" the body of the inner loop is executed and
\* control goes back to the tests.
SeedIter(g) ==
    IF g.pc = "assign"
      THEN [g EXCEPT !.s[g.i + 1] = splitmix64(Add(g.seed, U64(g.i))),
                     !.pc = "seed"]
      ELSE IF g.i >= NWords
             THEN [g EXCEPT !.pc = "ready"]
             ELSE IF g.s[g.i + 1] = Zero
                    THEN [g EXCEPT !.pc = "assign"]
                    ELSE [g EXCEPT !.i = g.i + 1]

RECURSIVE SeedRun(_)
\* Seed run from g to its return (pc = "ready"), or to the test it comes back
\* to with nothing changed when the assignment stores zero (pc = "seed")
SeedRun(g0) ==
    LET G(g) ==
            IF g.pc = "ready" THEN g
            ELSE LET H(n) == IF g.pc = "assign" /\ n.s[g.i + 1] = Zero
                               THEN n
                               ELSE SeedRun(n)
                 IN  On1(H, SeedIter(g))
    IN  On1(G, g0)

\* NewUnsafeXoshiro256ssRNG(k) as one computation: a zeroed struct, seeded
Constructed(k) == SeedRun([pc |-> "seed", seed |-> k, i |-> 0, s |-> NewStruct])

\* ------------------------------------------------------------------------
\* the byte materializer
\* ------------------------------------------------------------------------

\* byte(x): the low eight bits of x
Byte(x) == x[1]

\* the eight assignments bytes[i] = byte(x) .. bytes[i+7] = byte(x >> 56)
\* (bytes[i] of the code is bytes[i + 1] here)
Put8(bytes, i, x) ==
    [bytes EXCEPT ![i + 1] = Byte(x),
                  ![i + 2] = Byte(Shr(x, 8)),
                  ![i + 3] = Byte(Shr(x, 16)),
                  ![i + 4] = Byte(Shr(x, 24)),
                  ![i + 5] = Byte(Shr(x, 32)),
                  ![i + 6] = Byte(Shr(x, 40)),
                  ![i + 7] = Byte(Shr(x, 48)),
                  ![i + 8] = Byte(Shr(x, 56))]

RECURSIVE BytesWordsShort(_)
\* BytesWords that leaves the loop once fewer than 16 bytes are to go
BytesWordsShort(st0) ==
    LET G(st) ==
            IF st.bytesToGo < 16 THEN st
            ELSE LET H(u) ==
                         BytesWordsShort([bytes     |-> Put8(st.bytes, st.i, u.x),
                                          s         |-> u.s,
                                          i         |-> st.i + 8,
                                          bytesToGo |-> st.bytesToGo - 8,
                                          drawn     |-> Append(st.drawn, u.x),
                                          written   |-> st.written \cup (st.i .. st.i + 7)])
                 IN  On1(H, Uint64(st.s))
    IN  On1(G, st0)

RECURSIVE BytesWords(_)
\* the first loop of Bytes, from st = [bytes, s, i, bytesToGo, drawn, written]:
\* s is the state of r, drawn the words r.Uint64() returned so far, written
\* the positions of bytes assigned so far
BytesWords(st0) ==
    LET G(st) ==
            IF st.bytesToGo < 8 THEN st
            ELSE LET H(u) ==
                         BytesWords([bytes     |-> Put8(st.bytes, st.i, u.x),
                                     s         |-> u.s,
                                     i         |-> st.i + 8,
                                     bytesToGo |-> st.bytesToGo - 8,
                                     drawn     |-> Append(st.drawn, u.x),
                                     written   |-> st.written \cup (st.i .. st.i + 7)])
                 IN  On1(H, Uint64(st.s))
    IN  On1(G, st0)

RECURSIVE BytesTailNoShift(_)
\* BytesTail without x >>= 8
BytesTailNoShift(t0) ==
    LET G(t) ==
            IF t.i >= t.n THEN t
            ELSE BytesTailNoShift([t EXCEPT !.bytes[t.i + 1] = Byte(t.x),
                                            !.i = t.i + 1,
                                            !.written = @ \cup {t.i}])
    IN  On1(G, t0)

RECURSIVE BytesTail(_)
\* the second loop of Bytes, from t = [bytes, x, i, n, written]
BytesTail(t0) ==
    LET G(t) ==
            IF t.i >= t.n THEN t
            ELSE BytesTail([t EXCEPT !.bytes[t.i + 1] = Byte(t.x),
                                     !.x = Shr(t.x, 8),
                                     !.i = t.i + 1,
                                     !.written = @ \cup {t.i}])
    IN  On1(G, t0)

\* Bytes that draws the last word only when bytes remain to be written
BytesNoSpareDraw(s, bytes) ==
    LET n == Len(bytes)
        G(st) ==
            IF st.i >= n
              THEN [bytes |-> st.bytes, s |-> st.s, drawn |-> st.drawn,
                    written |-> st.written]
              ELSE LET H(u) ==
                           LET K(t) == [bytes |-> t.bytes, s |-> u.s,
                                        drawn |-> Append(st.drawn, u.x),
                                        written |-> t.written]
                           IN  On1(K, BytesTail([bytes |-> st.bytes, x |-> u.x,
                                                 i |-> st.i, n |-> n,
                                                 written |-> st.written]))
                   IN  On1(H, Uint64(st.s))
    IN  On1(G, BytesWords([bytes |-> bytes, s |-> s, i |-> 0, bytesToGo |-> n,
                           drawn |-> <<>>, written |-> {}]))

\* Bytes(r, bytes) with r in state s: the buffer returned (bytes), the state
\* r is left in (s), the words drawn (drawn) and the positions assigned
\* (written)
Bytes(s, bytes) ==
    LET n == Len(bytes)
        G(st) ==
            LET H(u) ==
                    LET K(t) == [bytes |-> t.bytes, s |-> u.s,
                                 drawn |-> Append(st.drawn, u.x),
                                 written |-> t.written]
                    IN  On1(K, BytesTail([bytes |-> st.bytes, x |-> u.x,
                                          i |-> st.i, n |-> n,
                                          written |-> st.written]))
            IN  On1(H, Uint64(st.s))
    IN  On1(G, BytesWords([bytes |-> bytes, s |-> s, i |-> 0, bytesToGo |-> n,
                           drawn |-> <<>>, written |-> {}]))

\* ------------------------------------------------------------------------
\* the values the pool methods compute from a drawn word
\* ------------------------------------------------------------------------

\* 0x00000000FFFFFFFF
Mask32 == <<255, 255, 255, 255, 0, 0, 0, 0>>

\* 0x7FFFFFFFFFFFFFFF
Mask63 == <<255, 255, 255, 255, 255, 255, 255, 127>>

\* uint32(v): the low 32 bits of v
Uint32(v) == <<v[1], v[2], v[3], v[4], 0, 0, 0, 0>>

\* Uint32n returning the low 32 bits of the drawn word, not reduced
Uint32nLow(x, maxN) == Uint32(And(x, Mask32))

\* Uint32n without the mask on the drawn word
Uint32nNoMask(x, maxN) == Uint32(Shr(Mul(x, maxN), 32))

\* what Uint32n(maxN) returns when r.Uint64() returned x; maxN is uint64(maxN)
Uint32nOf(x, maxN) == Uint32(Shr(Mul(And(x, Mask32), maxN), 32))

\* Int63 returning the drawn word as it is
Int63NoMask(x) == x

\* what Int63 returns when r.Uint64() returned x
Int63Of(x) == And(Mask63, x)

\* ------------------------------------------------------------------------
\* bounds and inputs
\* ------------------------------------------------------------------------

\* draws made from one generator instance
MaxSteps == 3

\* times one generator variable is constructed anew
MaxNew == 2

\* longest buffer handed to Bytes
MaxLen == 17

\* calls of Bytes made on one generator
MaxCalls == 2

\* goroutines calling into one ThreadsafePoolRNG
NCallers == 2

\* calls that take an instance from the pool, over all callers
MaxOps == 2

\* uint64(int64(-1))
MinusOne == <<255, 255, 255, 255, 255, 255, 255, 255>>

\* the index at which splitmix64 returns zero: index + Golden = 0 (mod 2^64)
ZeroPreimage == Add(Xor(Golden, MinusOne), U64(1))

\* uint64(seed) for the seeds tried: 0, 42, -1, and the seeds for which
\* splitmix64(uint64(seed) + i) is zero at i = 0 and at i = 3
Seeds ==
    {U64(0), U64(42), MinusOne, ZeroPreimage,
     Add(ZeroPreimage, Add(MinusOne, Add(MinusOne, MinusOne)))}

\* ------------------------------------------------------------------------
\* the generator used directly: two variables holding an instance each
\* ------------------------------------------------------------------------

Gens == 1..2

\* gen: the instances used directly; mat: one caller of Bytes(r, bytes);
\* pool: the instances idle in rngPool; inst: the instances New has returned;
\* call: what each goroutine is doing; started: calls made so far;
\* ret: how the call that ended last ended
VARIABLES gen, mat, pool, inst, call, started, ret

vars == <<gen, mat, pool, inst, call, started, ret>>

poolVars == <<pool, inst, call, started, ret>>

\* the seeds for which the constructor returns
GoodSeeds == {k \in Seeds : Constructed(k).pc = "ready"}

\* pre: the state the instance was in when the Seed call running, or run
\* last, on it was entered
NoGen == [pc |-> "none", seed |-> Zero, i |-> 0, s |-> NewStruct, out |-> <<>>, built |-> 0,
          pre |-> NewStruct]

\* no call of Bytes made, on a generator in state s
NoCall(s) == [r |-> s, buf |-> <<>>, pre |-> s, old |-> <<>>, drawn |-> <<>>,
              written |-> {}, calls |-> 0]

Callers == 1..NCallers

\* a call: the method, its int argument (n of Bytes, the length of p for
\* Read) and its uint64 argument (uint64(maxN), uint64(seed))
Op(name, n, m) == [name |-> name, n |-> n, m |-> m]

NoOp == Op("", 0, Zero)

\* no Seed in progress
NoSeeding == [pc |-> "ready", seed |-> Zero, i |-> 0, s |-> NewStruct]

\* g: the Seed that the factory, called by Get, is running and does not leave
Idle == [pc |-> "idle", op |-> NoOp, r |-> 0, x |-> Zero, buf |-> <<>>,
         g |-> NoSeeding]

NoRet == [c |-> 0, op |-> NoOp, how |-> "", r |-> 0, x |-> Zero, v |-> Zero,
          buf |-> <<>>]

\* the state of a pool NewSyncPoolXoshiro256ssRNG has returned
PoolInit ==
    /\ pool = {}
    /\ inst = <<>>
    /\ call = [c \in Callers |-> Idle]
    /\ started = 0
    /\ ret = NoRet

InitGen ==
    /\ gen = [j \in Gens |-> NoGen]
    /\ mat = NoCall(NewStruct)
    /\ PoolInit

\* NewUnsafeXoshiro256ssRNG that takes over the words the variable held
\* instead of allocating a zeroed struct
NewReusingStruct(j, k) ==
    /\ gen[j].pc \in {"none", "ready"}
    /\ gen[j].built < MaxNew
    /\ gen' = [gen EXCEPT ![j] =
                 [pc |-> "seed", seed |-> k, i |-> 0, s |-> gen[j].s,
                  out |-> <<>>, built |-> gen[j].built + 1, pre |-> gen[j].s]]
    /\ UNCHANGED <<mat, poolVars>>

\* gen[j] = NewUnsafeXoshiro256ssRNG(k): allocate the struct and enter Seed
NewUnsafeXoshiro256ssRNG(j, k) ==
    /\ gen[j].pc \in {"none", "ready"}
    /\ gen[j].built < MaxNew
    /\ gen' = [gen EXCEPT ![j] =
                 [pc |-> "seed", seed |-> k, i |-> 0, s |-> NewStruct,
                  out |-> <<>>, built |-> gen[j].built + 1, pre |-> NewStruct]]
    /\ UNCHANGED <<mat, poolVars>>

\* one step of Seed on gen[j]
Seed(j) ==
    /\ gen[j].pc \in {"seed", "assign"}
    /\ gen' = [gen EXCEPT ![j] = SeedIter(gen[j])]
    /\ UNCHANGED <<mat, poolVars>>

\* gen[j].Uint64()
GenUint64(j) ==
    /\ gen[j].pc = "ready"
    /\ Len(gen[j].out) < MaxSteps
    /\ LET u == Uint64(gen[j].s)
       IN  gen' = [gen EXCEPT ![j] = [@ EXCEPT !.s = u.s, !.out = Append(@, u.x)]]
    /\ UNCHANGED <<mat, poolVars>>

NextGen ==
    \E j \in Gens :
        \/ \E k \in Seeds : NewUnsafeXoshiro256ssRNG(j, k)
        \/ Seed(j)
        \/ GenUint64(j)

SpecGen == InitGen /\ [][NextGen]_vars

\* one goroutine constructing and using one instance
NextOne ==
    \/ \E k \in Seeds : NewUnsafeXoshiro256ssRNG(1, k)
    \/ Seed(1)
    \/ GenUint64(1)

\* the loops of Seed are run by the calling goroutine, which keeps running
SpecOneFair == InitGen /\ [][NextOne]_vars /\ WF_vars(Seed(1))

\* gen[j].Seed(k) that clears the state words before it seeds
ReSeedZeroing(j, k) ==
    /\ gen[j].pc = "ready"
    /\ gen' = [gen EXCEPT ![j] =
                 [pc |-> "seed", seed |-> k, i |-> 0, s |-> NewStruct,
                  out |-> gen[j].out, built |-> gen[j].built, pre |-> gen[j].s]]
    /\ UNCHANGED <<mat, poolVars>>

\* gen[j].Seed(k) called on an instance the constructor has returned: enter
\* Seed with the state words as they are
ReSeed(j, k) ==
    /\ gen[j].pc = "ready"
    /\ gen' = [gen EXCEPT ![j] =
                 [pc |-> "seed", seed |-> k, i |-> 0, s |-> gen[j].s,
                  out |-> gen[j].out, built |-> gen[j].built, pre |-> gen[j].s]]
    /\ UNCHANGED <<mat, poolVars>>

NextReSeed ==
    \/ \E k \in Seeds : NewUnsafeXoshiro256ssRNG(1, k)
    \/ Seed(1)
    \/ GenUint64(1)
    \/ \E k \in Seeds : ReSeed(1, k)

\* one goroutine constructing one instance, drawing from it and seeding it
\* again
SpecReSeed == InitGen /\ [][NextReSeed]_vars

\* ------------------------------------------------------------------------
\* the byte materializer on one generator
\* ------------------------------------------------------------------------

InitBytes ==
    /\ gen = [j \in Gens |-> NoGen]
    /\ \E k \in GoodSeeds : mat = NoCall(Constructed(k).s)
    /\ PoolInit

\* Bytes(r, bytes) on a buffer of n bytes, as make([]byte, n) allocates it
CallBytes(n) ==
    /\ mat.calls < MaxCalls
    /\ LET Call(old) ==
               LET Return(res) ==
                       [r |-> res.s, buf |-> res.bytes, pre |-> mat.r, old |-> old,
                        drawn |-> res.drawn, written |-> res.written,
                        calls |-> mat.calls + 1]
               IN  On1(Return, Bytes(mat.r, old))
       IN  mat' = On1(Call, [j \in 1..n |-> 0])
    /\ UNCHANGED <<gen, poolVars>>

NextBytes == \E n \in 0..MaxLen : CallBytes(n)

SpecBytes == InitBytes /\ [][NextBytes]_vars

\* ------------------------------------------------------------------------
\* the pool: goroutines calling the methods of one ThreadsafePoolRNG
\* ------------------------------------------------------------------------

\* what rand.Uint64() hands the factory as a seed
PoolSeeds == {U64(42), MinusOne, ZeroPreimage}

\* what the factory makes of each seed: NewUnsafeXoshiro256ssRNG(seed)
Fresh == {[seed |-> k, g |-> Constructed(k)] : k \in PoolSeeds}

\* uint64(maxN) for the bounds tried: 0, 1, 2, 3, 10, 2^31 - 1, 2^32,
\* 2^32 + 1 and 2^63 - 1
MaxNs ==
    {U64(0), U64(1), U64(2), U64(3), U64(10),
     <<255, 255, 255, 127, 0, 0, 0, 0>>,
     <<0, 0, 0, 0, 1, 0, 0, 0>>,
     <<1, 0, 0, 0, 1, 0, 0, 0>>,
     <<255, 255, 255, 255, 255, 255, 255, 127>>}

\* the calls one goroutine makes in turn: every method that takes an
\* instance from the pool
PoolCalls ==
    {Op("Uint64", 0, Zero), Op("Int63", 0, Zero),
     Op("Bytes", -1, Zero), Op("Bytes", 9, Zero), Op("Read", 1, Zero)}
    \cup {Op("Uint32n", 0, m) : m \in MaxNs}

\* the seeds the factory is handed while goroutines call at the same time
ConcSeeds == {U64(42), ZeroPreimage}

\* the calls goroutines make at the same time
ConcCalls ==
    {Op("Uint64", 0, Zero), Op("Bytes", -1, Zero), Op("Read", 1, Zero)}

\* InitPool: a pool no method was called on yet
Init ==
    /\ gen = [j \in Gens |-> NoGen]
    /\ mat = NoCall(NewStruct)
    /\ PoolInit

\* Get handing out any instance no caller holds, the pool still having it
\* or not
GetIdleOrDropped(c, op) ==
    /\ call[c].pc = "idle"
    /\ started < MaxOps
    /\ \E id \in 1..Len(inst) :
          /\ \A d \in Callers : ~(call[d].pc \in {"use", "put"} /\ call[d].r = id)
          /\ pool' = pool \ {id}
          /\ call' = [call EXCEPT ![c] = [Idle EXCEPT !.pc = "use", !.op = op, !.r = id]]
    /\ started' = started + 1
    /\ UNCHANGED <<gen, mat, inst, ret>>

\* Get handing out an idle instance that stays in the pool
GetIdleKeeping(c, op) ==
    /\ call[c].pc = "idle"
    /\ started < MaxOps
    /\ \E id \in pool :
          /\ pool' = pool
          /\ call' = [call EXCEPT ![c] = [Idle EXCEPT !.pc = "use", !.op = op, !.r = id]]
    /\ started' = started + 1
    /\ UNCHANGED <<gen, mat, inst, ret>>

\* s.rngPool.Get() finding an idle instance, which leaves the pool
GetIdle(c, op) ==
    /\ call[c].pc = "idle"
    /\ started < MaxOps
    /\ \E id \in pool :
          /\ pool' = pool \ {id}
          /\ call' = [call EXCEPT ![c] = [Idle EXCEPT !.pc = "use", !.op = op, !.r = id]]
    /\ started' = started + 1
    /\ UNCHANGED <<gen, mat, inst, ret>>

\* Get calling New and leaving the fresh instance in the pool as well
GetNewAlsoIdle(c, op, k) ==
    /\ call[c].pc = "idle"
    /\ started < MaxOps
    /\ \E f \in {h \in Fresh : h.seed = k /\ h.g.pc = "ready"} :
          /\ inst' = Append(inst, [s |-> f.g.s, seed |-> f.seed, out |-> <<>>])
          /\ call' = [call EXCEPT ![c] =
                        [Idle EXCEPT !.pc = "use", !.op = op, !.r = Len(inst) + 1]]
          /\ pool' = pool \cup {Len(inst) + 1}
    /\ started' = started + 1
    /\ UNCHANGED <<gen, mat, ret>>

\* s.rngPool.Get() finding nothing (sync.Pool may miss an idle instance) and
\* calling New: a fresh instance seeded from k, the value of rand.Uint64().
\* When Seed does not return, neither does Get: the caller stays in the
\* loop of Seed (Spin).
GetNew(c, op, k) ==
    /\ call[c].pc = "idle"
    /\ started < MaxOps
    /\ \E f \in {h \in Fresh : h.seed = k} :
             IF f.g.pc = "ready"
               THEN /\ inst' = Append(inst, [s |-> f.g.s, seed |-> f.seed, out |-> <<>>])
                    /\ call' = [call EXCEPT ![c] =
                                  [Idle EXCEPT !.pc = "use", !.op = op,
                                               !.r = Len(inst) + 1]]
               ELSE /\ inst' = inst
                    /\ call' = [call EXCEPT ![c] =
                                  [Idle EXCEPT !.pc = "hung", !.op = op, !.g = f.g]]
    /\ started' = started + 1
    /\ UNCHANGED <<gen, mat, pool, ret>>

\* Use returning the word r.Uint64() computes without storing the state the
\* step leaves
UseStale(c) ==
    /\ call[c].pc = "use"
    /\ LET id == call[c].r
       IN  \E u \in {Uint64(inst[id].s)} :
              /\ inst' = [inst EXCEPT ![id].out = Append(@, u.x)]
              /\ call' = [call EXCEPT ![c].pc = "put", ![c].x = u.x]
    /\ UNCHANGED <<gen, mat, pool, started, ret>>

\* the statements between Get and Put: x := r.Uint64() in Uint64 (which Int63
\* and Uint32n call), make and Bytes(r, bytes) in Bytes, Bytes(r, p) in Read.
\* make([]byte, n) panics for n < 0: the call ends there, r is not put back.
Use(c) ==
    /\ call[c].pc = "use"
    /\ LET id == call[c].r
           op == call[c].op
       IN  IF op.name \in {"Uint64", "Int63", "Uint32n"}
             THEN \E u \in {Uint64(inst[id].s)} :
                     /\ inst' = [inst EXCEPT ![id].s = u.s,
                                             ![id].out = Append(@, u.x)]
                     /\ call' = [call EXCEPT ![c].pc = "put", ![c].x = u.x]
                     /\ ret' = ret
             ELSE IF op.name = "Bytes" /\ op.n < 0
                    THEN /\ inst' = inst
                         /\ call' = [call EXCEPT ![c] = Idle]
                         /\ ret' = [NoRet EXCEPT !.c = c, !.op = op, !.how = "panic",
                                                 !.r = id]
                    ELSE \E res \in {Bytes(inst[id].s,
                                           [j \in 1..op.n |->
                                              IF op.name = "Read" THEN 170 ELSE 0])} :
                            /\ inst' = [inst EXCEPT ![id].s = res.s,
                                                    ![id].out = @ \o res.drawn]
                            /\ call' = [call EXCEPT ![c].pc = "put",
                                                    ![c].buf = res.bytes]
                            /\ ret' = ret
    /\ UNCHANGED <<gen, mat, pool, started>>

\* s.rngPool.Put(r) and the return of the method
Put(c) ==
    /\ call[c].pc = "put"
    /\ pool' = pool \cup {call[c].r}
    /\ ret' = [c |-> c, op |-> call[c].op, how |-> "return", r |-> call[c].r,
               x |-> call[c].x,
               v |-> CASE call[c].op.name = "Uint64"  -> call[c].x
                       [] call[c].op.name = "Int63"   -> Int63Of(call[c].x)
                       [] call[c].op.name = "Uint32n" -> Uint32nOf(call[c].x, call[c].op.m)
                       [] OTHER -> Zero,
               buf |-> call[c].buf]
    /\ call' = [call EXCEPT ![c] = Idle]
    /\ UNCHANGED <<gen, mat, inst, started>>

\* the caller whose Get called the factory with a seed Seed does not return
\* for: one more test or one more assignment of the loop `for r.s[i] == 0`
Spin(c) ==
    /\ call[c].pc = "hung"
    /\ call' = [call EXCEPT ![c].g = SeedIter(@)]
    /\ UNCHANGED <<gen, mat, pool, inst, started, ret>>

\* Seed that empties the pool before it panics
PoolSeedDraining(c, k) ==
    /\ call[c].pc = "idle"
    /\ ret' = [NoRet EXCEPT !.c = c, !.op = Op("Seed", 0, k), !.how = "panic"]
    /\ pool' = {}
    /\ UNCHANGED <<gen, mat, inst, call, started>>

\* Seed that returns to its caller
PoolSeedReturning(c, k) ==
    /\ call[c].pc = "idle"
    /\ ret' = [NoRet EXCEPT !.c = c, !.op = Op("Seed", 0, k), !.how = "return"]
    /\ UNCHANGED <<gen, mat, pool, inst, call, started>>

\* ThreadsafePoolRNG.Seed(seed): panic("Cant seed a ThreadsafePoolRNG")
PoolSeed(c, k) ==
    /\ call[c].pc = "idle"
    /\ ret' = [NoRet EXCEPT !.c = c, !.op = Op("Seed", 0, k), !.how = "panic"]
    /\ UNCHANGED <<gen, mat, pool, inst, call, started>>

\* sync.Pool drops an idle instance (any item stored in the Pool may be
\* removed at any time without notification)
Evict ==
    /\ \E id \in pool : pool' = pool \ {id}
    /\ UNCHANGED <<gen, mat, inst, call, started, ret>>

Next ==
    \/ \E c \in Callers :
          \/ \E op \in ConcCalls : GetIdle(c, op)
          \/ \E op \in ConcCalls, k \in ConcSeeds : GetNew(c, op, k)
          \/ Use(c)
          \/ Put(c)
          \/ Spin(c)
          \/ \E k \in {U64(0), MinusOne} : PoolSeed(c, k)
    \/ Evict

\* goroutines calling into the pool at the same time
Spec == Init /\ [][Next]_vars

\* the statements of a call in progress: the goroutine making it is scheduled
\* again and again
Run(c) == Use(c) \/ Put(c) \/ Spin(c)

\* goroutines calling into the pool at the same time, under a fair scheduler
SpecFair == Init /\ [][Next]_vars /\ \A c \in Callers : WF_vars(Run(c))

NextSeq ==
    \/ \E op \in PoolCalls : GetIdle(1, op)
    \/ \E op \in PoolCalls, k \in PoolSeeds : GetNew(1, op, k)
    \/ Use(1)
    \/ Put(1)
    \/ Spin(1)
    \/ \E k \in {U64(0), MinusOne} : PoolSeed(1, k)
    \/ Evict

\* one goroutine calling into the pool, one call after the other
SpecSeq == Init /\ [][NextSeq]_vars

\* ------------------------------------------------------------------------
\* properties of the generator (SpecGen)
\* ------------------------------------------------------------------------

\* C2: two instances freshly constructed from the same seed have the same
\* state, return the same value at every step, and have the same state after
\* the same number of steps.
C2_DeterministicStreams ==
    \A a \in Gens : \A b \in Gens \ {a} :
        (/\ gen[a].pc = "ready"
         /\ gen[b].pc = "ready"
         /\ gen[a].seed = gen[b].seed)
        => /\ \A n \in 1..Len(gen[a].out) :
                 n <= Len(gen[b].out) => gen[a].out[n] = gen[b].out[n]
           /\ Len(gen[a].out) = Len(gen[b].out) => gen[a].s = gen[b].s

\* C2 witness: both instances built from seed 42, each stepped twice or more
C2_Witness ==
    /\ gen[1].pc = "ready" /\ gen[2].pc = "ready"
    /\ gen[1].seed = U64(42) /\ gen[2].seed = U64(42)
    /\ Len(gen[1].out) >= 2 /\ Len(gen[2].out) >= 2

\* C5: when NewUnsafeXoshiro256ssRNG(k) has returned and no draw was made
\* yet, none of the four state words is zero.
C5_NonZeroAfterSeed ==
    \A j \in Gens :
        (gen[j].pc = "ready" /\ gen[j].out = <<>>)
        => \A w \in 1..NWords : gen[j].s[w] # Zero

\* C5 witness: construction from seed 0 has returned
C5_Witness ==
    \E j \in Gens : gen[j].pc = "ready" /\ gen[j].out = <<>> /\ gen[j].seed = U64(0)

\* C6: seeding terminates for every seed: a construction that has entered
\* Seed eventually returns.
C6_SeedingTerminates == (gen[1].pc = "seed") ~> (gen[1].pc = "ready")

\* bit i of the uint64 x, 0 being the least significant
BitAt(x, i) == BitOf(x[(i \div 8) + 1], i % 8)

\* the uint64 whose bit i is B(i)
FromBits(B(_)) ==
    LET F(j) == B(8*j) + 2*B(8*j+1) + 4*B(8*j+2) + 8*B(8*j+3)
                + 16*B(8*j+4) + 32*B(8*j+5) + 64*B(8*j+6) + 128*B(8*j+7)
    IN  MkWord(F)

\* rotate left by k, bit by bit
RotlBits(x, k) ==
    LET B(i) == BitAt(x, (i - k) % W)
    IN  FromBits(B)

\* shift left by k, bit by bit
ShlBits(x, k) ==
    LET B(i) == IF i >= k THEN BitAt(x, i - k) ELSE 0
    IN  FromBits(B)

\* exclusive or of three words, bit by bit
Xor3Bits(x, y, z) ==
    LET B(i) == (BitAt(x, i) + BitAt(y, i) + BitAt(z, i)) % 2
    IN  FromBits(B)

\* the documented step in closed form, from the state before it:
\*   result = rotl(s1 * 5, 7) * 9
\*   s0' = s0 ^ s3 ^ s1, s1' = s1 ^ s2 ^ s0,
\*   s2' = s2 ^ s0 ^ (s1 << 17), s3' = rotl(s3 ^ s1, 45)
DocumentedStep(s) ==
    LET s1x5 == Add(s[2], ShlBits(s[2], 2))
        rot  == RotlBits(s1x5, 7)
    IN  [x |-> Add(rot, ShlBits(rot, 3)),
         s |-> <<Xor3Bits(s[1], s[4], s[2]),
                 Xor3Bits(s[2], s[3], s[1]),
                 Xor3Bits(s[3], s[1], ShlBits(s[2], 17)),
                 RotlBits(Xor3Bits(s[4], s[2], Zero), 45)>>]

\* C10: every Uint64 step returns rotl(s1*5, 7)*9 of the state before it
\* and leaves the state the documented sequence of updates produces.
C10_StepAsDocumented ==
    [][\A j \in Gens :
          (/\ gen[j].pc = "ready"
           /\ gen'[j].pc = "ready"
           /\ Len(gen'[j].out) = Len(gen[j].out) + 1)
          => LET d == DocumentedStep(gen[j].s)
             IN  /\ gen'[j].s = d.s
                 /\ gen'[j].out[Len(gen'[j].out)] = d.x]_vars

\* C10 witness: an instance that was stepped three times
C10_Witness == \E j \in Gens : gen[j].pc = "ready" /\ Len(gen[j].out) >= 3

\* ------------------------------------------------------------------------
\* properties of the byte materializer (SpecBytes)
\* ------------------------------------------------------------------------

\* C7: Bytes returns a buffer of the length it was given, and byte j of it
\* is byte (j mod 8), counted from the least significant, of the
\* (floor(j/8)+1)-th word drawn during the call, the words drawn being the
\* successive outputs of r.
C7_BytesLittleEndian ==
    mat.calls > 0
    => /\ Len(mat.buf) = Len(mat.old)
       /\ \A j \in 0..(Len(mat.buf) - 1) :
             /\ (j \div 8) + 1 <= Len(mat.drawn)
             /\ mat.buf[j + 1] = mat.drawn[(j \div 8) + 1][(j % 8) + 1]
       /\ Len(mat.drawn) >= 1 => mat.drawn[1] = Uint64(mat.pre).x
       /\ Len(mat.drawn) >= 2 => mat.drawn[2] = Uint64(Uint64(mat.pre).s).x

\* C7 witness: a buffer of 17 bytes was filled: two full words and a tail
C7_Witness == mat.calls > 0 /\ Len(mat.buf) = 17 /\ Len(mat.drawn) = 3

\* C8 as stated: a call with an empty buffer draws nothing (the state of the
\* generator is as before the call, the buffer unchanged), and a call with
\* 1..7 bytes draws at least one word.
C8_NoDrawForEmpty ==
    mat.calls > 0
    => /\ Len(mat.old) = 0 => (mat.r = mat.pre /\ mat.drawn = <<>> /\ mat.buf = mat.old)
       /\ Len(mat.old) \in 1..7 => Len(mat.drawn) >= 1

\* C8 amended: a call with a buffer of fewer than 8 bytes, the empty one
\* included, draws exactly one word: the generator is left one Uint64 step
\* after the state before the call; the empty buffer comes back unchanged.
C8_OneDrawBelowEight ==
    (mat.calls > 0 /\ Len(mat.old) < 8)
    => /\ Len(mat.drawn) = 1
       /\ mat.r = Uint64(mat.pre).s
       /\ mat.r # mat.pre
       /\ Len(mat.old) = 0 => mat.buf = mat.old

\* C8 witness: Bytes was called with an empty buffer
C8_Witness == mat.calls > 0 /\ Len(mat.old) = 0 /\ Len(mat.drawn) = 1

\* ------------------------------------------------------------------------
\* properties of the pool under concurrent callers (Spec)
\* ------------------------------------------------------------------------

\* caller c has taken an instance from the pool and not put it back
Holds(c) == call[c].pc \in {"use", "put"}

\* C1: at each moment an instance held by a caller is not idle in the pool
\* and is held by no other caller, and whenever the state of an instance
\* changes, the instance is outside the pool and the step is made by the one
\* caller holding it.
C1_Exclusive ==
    /\ [](\A c \in Callers :
             Holds(c) => /\ call[c].r \in 1..Len(inst)
                         /\ call[c].r \notin pool
                         /\ \A d \in Callers \ {c} : Holds(d) => call[d].r # call[c].r)
    /\ [][\A id \in 1..Len(inst) :
             inst'[id] # inst[id]
             => /\ id \notin pool
                /\ \E c \in Callers :
                      /\ call[c].pc = "use" /\ call[c].r = id
                      /\ \A d \in Callers \ {c} : ~(Holds(d) /\ call[d].r = id)]_vars

\* C1 witness: two callers hold an instance each at the same time, both
\* having stepped it, while a third instance could not be idle yet
C1_Witness ==
    /\ call[1].pc = "put" /\ call[2].pc = "put"
    /\ call[1].r # call[2].r
    /\ Len(inst[call[1].r].out) > 0 /\ Len(inst[call[2].r].out) > 0

\* C3: a call of ThreadsafePoolRNG.Seed ends in a panic, never in a return,
\* whatever the seed and whatever the pool holds.
C3_SeedAlwaysPanics == ret.op.name = "Seed" => ret.how = "panic"

\* C3 witness: Seed was called, and it panicked, while one instance was idle
\* in the pool and another was checked out by the other caller
C3_Witness ==
    /\ ret.op.name = "Seed" /\ ret.how = "panic" /\ ret.op.m = MinusOne
    /\ pool # {}
    /\ \E c \in Callers : c # ret.c /\ Holds(c)

\* ------------------------------------------------------------------------
\* properties of the pool's methods, one call at a time (SpecSeq)
\* ------------------------------------------------------------------------

\* C4 as stated: when a call that took an instance from the pool ends, by a
\* return or by a panic, the instance is idle in the pool.
C4_ReleasedOnEveryExit ==
    [][\A c \in Callers :
          (Holds(c) /\ call'[c].pc = "idle") => call[c].r \in pool']_vars

\* ((low 32 bits of x) * maxN) >> 32 in 64-bit arithmetic, as 32 bits: the
\* bytes 4..7 of the product of the four low bytes of x and maxN
Reduce(x, maxN) ==
    LET P(p) == <<p[5], p[6], p[7], p[8], 0, 0, 0, 0>>
    IN  On1(P, Mul(<<x[1], x[2], x[3], x[4], 0, 0, 0, 0>>, maxN))

\* C9: Uint32n(maxN) with maxN > 0 returns v < maxN, and v is
\* ((low 32 bits of x) * maxN) >> 32 truncated to 32 bits, x being a word
\* drawn from the instance the call took.
C9_Uint32nBelowBound ==
    (ret.op.name = "Uint32n" /\ ret.how = "return" /\ ret.op.m # Zero)
    => /\ Less(ret.v, ret.op.m)
       /\ ret.v = Reduce(ret.x, ret.op.m)
       /\ \E i \in 1..Len(inst[ret.r].out) : ret.x = inst[ret.r].out[i]

\* C9 witness: Uint32n(10) returned a value other than 0
C9_Witness ==
    /\ ret.op.name = "Uint32n" /\ ret.how = "return"
    /\ ret.op.m = U64(10)
    /\ ret.v # Zero

\* ------------------------------------------------------------------------
\* progress of the pool's callers (SpecFair)
\* ------------------------------------------------------------------------

\* C11: under fair scheduling every call that was started completes: no
\* caller stays inside a call forever.
C11_EveryDrawCompletes ==
    \A c \in Callers : (call[c].pc # "idle") ~> (call[c].pc = "idle")

\* ------------------------------------------------------------------------
\* the streams of the pool's instances (Spec)
\* ------------------------------------------------------------------------

RECURSIVE StepsFrom(_, _)
\* k successive Uint64 steps from state s: the state left and the words
\* returned, in order
StepsFrom(s, k) ==
    IF k = 0 THEN [s |-> s, out |-> <<>>]
    ELSE LET H(u) ==
                 LET K(r) == [s |-> r.s, out |-> <<u.x>> \o r.out]
                 IN  On1(K, StepsFrom(u.s, k - 1))
         IN  On1(H, Uint64(s))

\* C12: an instance enters the pool's use in the state seeding left it in,
\* with no word drawn; every step that changes an instance appends to the
\* words drawn from it the consecutive outputs of the step function from the
\* state it had, and leaves it in the state after them; no step changes more
\* than one instance. So the words drawn from an instance over its successive
\* checkouts are the consecutive outputs from its seeded state.
C12_StreamInOrder ==
    [][/\ \A id \in 1..Len(inst') :
             IF id > Len(inst)
               THEN /\ inst'[id].out = <<>>
                    /\ inst'[id].s = Constructed(inst'[id].seed).s
               ELSE \/ inst'[id] = inst[id]
                    \/ /\ Len(inst'[id].out) > Len(inst[id].out)
                       /\ inst'[id].seed = inst[id].seed
                       /\ \E r \in {StepsFrom(inst[id].s,
                                              Len(inst'[id].out) - Len(inst[id].out))} :
                             /\ inst'[id].s = r.s
                             /\ inst'[id].out = inst[id].out \o r.out
       /\ Cardinality({id \in 1..Len(inst) : inst'[id] # inst[id]}) <= 1]_vars

\* C12 witness: an instance is checked out for the second time and was
\* stepped in both checkouts
C12_Witness ==
    \E c \in Callers :
        /\ call[c].pc = "put"
        /\ ret.how = "return" /\ ret.r = call[c].r
        /\ Len(inst[call[c].r].out) >= 2

\* ------------------------------------------------------------------------
\* what the pool keeps and what it constructs (Spec)
\* ------------------------------------------------------------------------

\* C13 as stated: the factory constructs an instance only when no instance
\* is idle in the pool.
C13_NewOnlyWhenNoneIdle ==
    [][Len(inst') > Len(inst) => pool = {}]_vars

\* C13 amended: an acquire hands out either an idle instance, which leaves
\* the pool, or a fresh instance from the factory, the idle set staying as it
\* was, whether or not an instance is idle; the instances constructed are
\* never more than the acquires made.
C13_IdleOrFresh ==
    /\ [][\A c \in Callers :
             (call[c].pc = "idle" /\ call'[c].pc = "use")
             => \/ /\ call'[c].r \in pool
                   /\ pool' = pool \ {call'[c].r}
                   /\ inst' = inst
                \/ /\ call'[c].r = Len(inst) + 1
                   /\ Len(inst') = Len(inst) + 1
                   /\ pool' = pool]_vars
    /\ [](Len(inst) <= started)

\* C13 witness: a caller holds a fresh second instance, not stepped yet,
\* while the first instance is idle in the pool
C13_Witness ==
    /\ Len(inst) = 2
    /\ 1 \in pool
    /\ \E c \in Callers : call[c].pc = "use" /\ call[c].r = 2

\* C14 as stated: an idle instance keeps its state and stays in the pool
\* until an acquire removes it.
C14_IdleRetained ==
    [][\A id \in pool :
          /\ inst'[id] = inst[id]
          /\ \/ id \in pool'
             \/ \E c \in Callers :
                   call[c].pc = "idle" /\ call'[c].pc = "use" /\ call'[c].r = id]_vars

\* C14 amended: an idle instance keeps its state while idle and leaves the
\* pool only by an acquire that hands it out or by the pool dropping it; an
\* instance that is neither idle nor held is never idle or held again.
C14_IdleUnchangedUntilTakenOrDropped ==
    [][/\ \A id \in pool :
             /\ inst'[id] = inst[id]
             /\ \/ id \in pool'
                \/ \E c \in Callers :
                      call[c].pc = "idle" /\ call'[c].pc = "use" /\ call'[c].r = id
                \/ \A c \in Callers :
                      ~(call'[c].pc \in {"use", "put"} /\ call'[c].r = id)
       /\ \A id \in 1..Len(inst) :
             (id \notin pool /\ \A c \in Callers : ~(Holds(c) /\ call[c].r = id))
             => /\ id \notin pool'
                /\ \A c \in Callers :
                      ~(call'[c].pc \in {"use", "put"} /\ call'[c].r = id)]_vars

\* C14 witness: the instance the last call returned to the pool is no longer
\* idle, and no caller holds it: the pool dropped it
C14_Witness ==
    /\ ret.how = "return"
    /\ ret.r \in 1..Len(inst)
    /\ ret.r \notin pool
    /\ \A c \in Callers : ~(Holds(c) /\ call[c].r = ret.r)

\* ------------------------------------------------------------------------
\* the all-zero state (SpecGen)
\* ------------------------------------------------------------------------

\* one Uint64 step from the all-zero state
ZeroStep == Uint64(NewStruct)

\* C15: the all-zero state is a fixed point of the step, and no instance
\* that seeding has returned is in the all-zero state, after any number of
\* Uint64 steps.
C15_NeverAllZero ==
    /\ ZeroStep.s = NewStruct
    /\ \A j \in Gens : gen[j].pc = "ready" => gen[j].s # NewStruct

\* C15 witness: an instance seeded from -1 was stepped three times
C15_Witness ==
    \E j \in Gens :
        gen[j].pc = "ready" /\ gen[j].seed = MinusOne /\ Len(gen[j].out) >= 3

\* ------------------------------------------------------------------------
\* the words one call of Bytes draws (SpecBytes)
\* ------------------------------------------------------------------------

\* ceil(n / 8)
CeilDiv8(n) == (n + 7) \div 8

\* C16: a call of Bytes on a buffer of n bytes draws at least ceil(n/8) and
\* at most ceil(n/8) + 1 words, and each of the positions 0..n-1 of the
\* buffer is written.
C16_DrawsWithinOneWord ==
    mat.calls > 0
    => /\ Len(mat.drawn) >= CeilDiv8(Len(mat.old))
       /\ Len(mat.drawn) <= CeilDiv8(Len(mat.old)) + 1
       /\ mat.written = 0..(Len(mat.old) - 1)

\* C16 witness: a buffer of 16 bytes was filled and three words were drawn,
\* one more than the two whose bytes were written
C16_Witness == mat.calls > 0 /\ Len(mat.old) = 16 /\ Len(mat.drawn) = 3

\* ------------------------------------------------------------------------
\* what a call of the pool's Seed leaves behind (Spec)
\* ------------------------------------------------------------------------

\* C17: the step in which a call of ThreadsafePoolRNG.Seed fails changes
\* neither the idle set, nor the state of any instance, nor what any caller
\* holds or is doing.
C17_SeedLeavesPoolUnchanged ==
    [][(ret' # ret /\ ret'.op.name = "Seed")
       => (pool' = pool /\ inst' = inst /\ call' = call)]_vars

\* C17 witness: Seed(0) has failed while an instance was idle in the pool and
\* another caller was between its Get and its draw
C17_Witness ==
    /\ ret.op.name = "Seed" /\ ret.op.m = U64(0) /\ ret.how = "panic"
    /\ pool # {}
    /\ \E c \in Callers : c # ret.c /\ call[c].pc = "use"

\* ------------------------------------------------------------------------
\* the values of Uint32n(0) and Int63 (SpecSeq)
\* ------------------------------------------------------------------------

\* C18: a call of Uint32n(0) ends by a return, of the value 0, whatever the
\* word drawn; between its acquire and its release it draws exactly one
\* word from the instance it holds, and its release puts the instance back.
C18_Uint32nZeroReturnsZero ==
    /\ []((ret.op = Op("Uint32n", 0, Zero) /\ ret.how # "")
          => (ret.how = "return" /\ ret.v = Zero))
    /\ [][\A c \in Callers :
             (call[c].op = Op("Uint32n", 0, Zero) /\ call'[c] # call[c])
             => /\ call[c].pc = "use"
                   => /\ call'[c].pc = "put"
                      /\ inst'[call[c].r].out = Append(inst[call[c].r].out, call'[c].x)
                /\ call[c].pc = "put"
                   => /\ call'[c].pc = "idle"
                      /\ inst' = inst
                      /\ call[c].r \in pool'
                      /\ ret'.how = "return" /\ ret'.v = Zero]_vars

\* C18 witness: Uint32n(0) has returned after drawing a word whose low 32
\* bits are not all zero, and the instance is idle again
C18_Witness ==
    /\ ret.op = Op("Uint32n", 0, Zero) /\ ret.how = "return"
    /\ And(ret.x, Mask32) # Zero
    /\ ret.r \in pool

\* C20: a call of Int63 draws exactly one word from the instance it holds
\* and returns that word with bit 63 cleared: a value below 2^63 that agrees
\* with the word in the bits 0..62.
C20_Int63ClearsTopBit ==
    /\ []((ret.op.name = "Int63" /\ ret.how # "")
          => /\ ret.how = "return"
             /\ ret.v[W \div 8] < 128
             /\ ret.v[W \div 8] = ret.x[W \div 8] % 128
             /\ \A j \in 1..((W \div 8) - 1) : ret.v[j] = ret.x[j])
    /\ [][\A c \in Callers :
             (call[c].op.name = "Int63" /\ call'[c] # call[c])
             => /\ call[c].pc = "use"
                   => /\ call'[c].pc = "put"
                      /\ inst'[call[c].r].out = Append(inst[call[c].r].out, call'[c].x)
                /\ call[c].pc = "put"
                   => /\ call'[c].pc = "idle"
                      /\ inst' = inst
                      /\ ret'.x = call[c].x]_vars

\* C20 witness: Int63 has returned after drawing a word with bit 63 set
C20_Witness ==
    /\ ret.op.name = "Int63" /\ ret.how = "return"
    /\ ret.x[W \div 8] >= 128

\* ------------------------------------------------------------------------
\* Seed called again on a seeded instance (SpecReSeed)
\* ------------------------------------------------------------------------

\* none of the four words of s is zero
AllNonZero(s) == \A w \in 1..NWords : s[w] # Zero

\* C19: a step of Seed leaves every state word that is not zero as it is,
\* and a call of Seed entered with all four words non-zero returns with the
\* state it was entered with, whatever the seed.
C19_ReSeedKeepsState ==
    [][\A j \in Gens :
          (gen[j].pc \in {"seed", "assign"} /\ gen'[j] # gen[j])
          => /\ \A w \in 1..NWords :
                   gen[j].s[w] # Zero => gen'[j].s[w] = gen[j].s[w]
             /\ (gen'[j].pc = "ready" /\ AllNonZero(gen[j].pre))
                => gen'[j].s = gen[j].pre]_vars

\* C19 witness: Seed(42) has returned on an instance that was constructed
\* from another seed and had words drawn from it
C19_Witness ==
    /\ gen[1].pc = "ready"
    /\ AllNonZero(gen[1].pre)
    /\ gen[1].s = gen[1].pre
    /\ gen[1].seed = U64(42)
    /\ Len(gen[1].out) >= 1
    /\ gen[1].s # StepsFrom(Constructed(U64(42)).s, Len(gen[1].out)).s

====
